---- MODULE Spec2Model ----
(***************************************************************************)
(* Model of api/translate-product.js: the HTML-aware Arabic translator for *)
(* Shopify products.                                                       *)
(*                                                                         *)
(* A JavaScript string is a sequence of one-character strings.  Offsets    *)
(* (start, end, lastIndex, i) are 0-based as in the source; Slice converts *)
(* to the 1-based indexing of Sequences.                                   *)
(***************************************************************************)
EXTENDS Integers, Sequences, FiniteSets, TLC

\* ------------------------------------------------------------------------
\* Bounds of the model
\* ------------------------------------------------------------------------

\* Longest markup string enumerated.
MaxLen == 4

\* How many more entries than extracted segments the oracle may return.
MaxExtra == 1

\* Characters of the markup: the two delimiters, a letter and a blank.
Alphabet == {"<", ">", "a", " "}

\* Translated texts the oracle may return for one segment.
TransTexts == {<<>>, <<"x">>, <<"x", "y">>, <<"<">>}

\* Translated texts used in the handler runs.
OracleTexts == {<<"x">>, <<"y", "y">>}

RECURSIVE StringsOfLen(_)
StringsOfLen(n) ==
    IF n = 0 THEN {<<>>}
    ELSE {Append(s, c) : s \in StringsOfLen(n - 1), c \in Alphabet}

Strings == UNION {StringsOfLen(n) : n \in 0..MaxLen}

RECURSIVE TextSeqs(_, _)
TextSeqs(texts, n) ==
    IF n = 0 THEN {<<>>}
    ELSE {Append(s, t) : s \in TextSeqs(texts, n - 1), t \in texts}

Min(a, b) == IF a < b THEN a ELSE b

\* ------------------------------------------------------------------------
\* String primitives
\* ------------------------------------------------------------------------

\* String.prototype.slice(from, to) for 0 <= from, to.
Slice(s, from, to) ==
    LET f == Min(from, Len(s))
        t == Min(to, Len(s))
    IN  IF f >= t THEN <<>> ELSE SubSeq(s, f + 1, t)

\* String.prototype.slice(from).
SliceFrom(s, from) == Slice(s, from, Len(s))

\* ------------------------------------------------------------------------
\* extractTextSegments
\* ------------------------------------------------------------------------

\* The locals of extractTextSegments before the loop.
ExtractInit ==
    [segments |-> <<>>, insideTag |-> FALSE, currentText |-> <<>>,
     currentStart |-> 0]

\* One iteration of the scan loop at index i on character ch.
ExtractStepPushesEmptyRuns(st, i, ch) ==
    IF ch = "<"
    THEN IF ~st.insideTag
         THEN [st EXCEPT
                 !.segments = Append(@, [start |-> st.currentStart,
                                         end |-> i,
                                         text |-> st.currentText]),
                 !.currentText = <<>>,
                 !.insideTag = TRUE]
         ELSE [st EXCEPT !.insideTag = TRUE]
    ELSE IF ch = ">"
    THEN [st EXCEPT !.insideTag = FALSE]
    ELSE IF ~st.insideTag
         THEN [st EXCEPT
                 !.currentStart = IF st.currentText = <<>> THEN i ELSE @,
                 !.currentText = Append(@, ch)]
         ELSE st

ExtractStepTagNeverOpens(st, i, ch) ==
    IF ch = "<"
    THEN IF ~st.insideTag /\ st.currentText # <<>>
         THEN [st EXCEPT
                 !.segments = Append(@, [start |-> st.currentStart,
                                         end |-> i,
                                         text |-> st.currentText]),
                 !.currentText = <<>>]
         ELSE st
    ELSE IF ch = ">"
    THEN [st EXCEPT !.insideTag = FALSE]
    ELSE IF ~st.insideTag
         THEN [st EXCEPT
                 !.currentStart = IF st.currentText = <<>> THEN i ELSE @,
                 !.currentText = Append(@, ch)]
         ELSE st

ExtractStepRestartsRun(st, i, ch) ==
    IF ch = "<"
    THEN IF ~st.insideTag /\ st.currentText # <<>>
         THEN [st EXCEPT
                 !.segments = Append(@, [start |-> st.currentStart,
                                         end |-> i,
                                         text |-> st.currentText]),
                 !.currentText = <<>>,
                 !.insideTag = TRUE]
         ELSE [st EXCEPT !.insideTag = TRUE]
    ELSE IF ch = ">"
    THEN [st EXCEPT !.insideTag = FALSE]
    ELSE IF ~st.insideTag
         THEN [st EXCEPT !.currentStart = i,
                         !.currentText = Append(@, ch)]
         ELSE st

ExtractStep(st, i, ch) ==
    IF ch = "<"
    THEN IF ~st.insideTag /\ st.currentText # <<>>
         THEN [st EXCEPT
                 !.segments = Append(@, [start |-> st.currentStart,
                                         end |-> i,
                                         text |-> st.currentText]),
                 !.currentText = <<>>,
                 !.insideTag = TRUE]
         ELSE [st EXCEPT !.insideTag = TRUE]
    ELSE IF ch = ">"
    THEN [st EXCEPT !.insideTag = FALSE]
    ELSE IF ~st.insideTag
         THEN [st EXCEPT
                 !.currentStart = IF st.currentText = <<>> THEN i ELSE @,
                 !.currentText = Append(@, ch)]
         ELSE st

RECURSIVE ExtractLoop(_, _, _)
ExtractLoop(html, i, st) ==
    IF i >= Len(html) THEN st
    ELSE ExtractLoop(html, i + 1, ExtractStep(st, i, html[i + 1]))

\* The push after the loop and the return value.
extractTextSegmentsNoFinalPush(html) ==
    ExtractLoop(html, 0, ExtractInit).segments

extractTextSegments(html) ==
    LET st == ExtractLoop(html, 0, ExtractInit)
    IN  IF ~st.insideTag /\ st.currentText # <<>>
        THEN Append(st.segments, [start |-> st.currentStart,
                                  end |-> Len(html),
                                  text |-> st.currentText])
        ELSE st.segments

\* A text with a character that is not a blank.
NotBlank(t) == \E i \in 1..Len(t) : t[i] # " "

\* segments.map((s) => s.text)
SegmentTextsSkipsBlank(segs) ==
    SelectSeq([k \in 1..Len(segs) |-> segs[k].text], NotBlank)

SegmentTexts(segs) == [k \in 1..Len(segs) |-> segs[k].text]

\* ------------------------------------------------------------------------
\* rebuildHtmlWithTranslations
\* ------------------------------------------------------------------------

\* One iteration of the splice loop: acc = [result, lastIndex].
RebuildStepKeepsCursor(acc, html, seg, translatedText) ==
    [result |-> acc.result \o Slice(html, acc.lastIndex, seg.start)
                           \o translatedText,
     lastIndex |-> seg.start]

RebuildStep(acc, html, seg, translatedText) ==
    [result |-> acc.result \o Slice(html, acc.lastIndex, seg.start)
                           \o translatedText,
     lastIndex |-> seg.end]

RECURSIVE RebuildLoop(_, _, _, _, _)
RebuildLoop(html, segs, trans, i, acc) ==
    IF i >= Len(segs) THEN acc
    ELSE RebuildLoop(html, segs, trans, i + 1,
                     RebuildStep(acc, html, segs[i + 1], trans[i + 1]))

rebuildHtmlWithTranslations(html, segs, trans) ==
    LET acc == RebuildLoop(html, segs, trans, 0,
                           [result |-> <<>>, lastIndex |-> 0])
    IN  acc.result \o SliceFrom(html, acc.lastIndex)

\* ------------------------------------------------------------------------
\* State
\* ------------------------------------------------------------------------

VARIABLES
    html,          \* the markup handed to the two functions on their own
    segments,      \* extractTextSegments(html)
    translations,  \* the translated texts handed to the splice
    result,        \* rebuildHtmlWithTranslations(html, segments, translations)
    reextracted,   \* extractTextSegments(result)
    phase,         \* "start" | "extracted" | "rebuilt" | "reextracted" |
                   \* "unused"
    active,        \* the invocations of the handler that take place
    h              \* the locals of each invocation

pureVars == <<html, segments, translations, result, reextracted, phase>>

vars == <<html, segments, translations, result, reextracted, phase, active, h>>

\* ------------------------------------------------------------------------
\* The handler: requests, upstream answers, responses
\* ------------------------------------------------------------------------

\* req.method
Methods == {"POST", "GET"}

\* req.body: undefined, {}, {handle: ""}, {handle: "watch"}
Bodies == {"undefined", "noHandle", "emptyHandle", "handle"}

\* process.env: which of the three variables are set.
Envs == [storeDomain : BOOLEAN, adminToken : BOOLEAN, openaiKey : BOOLEAN]

\* The three upstream calls, by what they ask for.
CallProduct == "productByHandle"
CallOpenAI == "chatCompletions"
CallRegister == "translationsRegister"

\* res.status(...) values
StatusOk == 200
StatusBadRequest == 400
StatusNotFound == 404
StatusMethodNotAllowed == 405
StatusServerError == 500

\* error strings of the responses
ErrMethod == "Method not allowed. Use POST."
ErrMissingHandle == "Missing required field: handle"
ErrShopifyEnv == "Missing Shopify env vars. Check SHOPIFY_STORE_DOMAIN and SHOPIFY_ADMIN_TOKEN."
ErrOpenAIEnv == "Missing OPENAI_API_KEY environment variable."
ErrProductApi == "Shopify productByHandle API error"
ErrNoProduct == "No product found for handle"
ErrOpenAIApi == "OpenAI translation API error"
ErrParse == "Could not parse OpenAI JSON response"
ErrNoSegmentsAr == "OpenAI response missing segments_ar array"
ErrMismatch == "Mismatch between segments and segments_ar length in OpenAI response"
ErrRegisterApi == "Shopify translationsRegister API error"
ErrUserErrors == "Shopify translationsRegister userErrors"
ErrUnexpected == "Unexpected server error in translate-product"

\* A response body {ok, error, ...}: keys are the fields it carries; expected
\* and got are the two counts of details (-1 when details holds no counts).
Response(status, ok, error, keys) ==
    [status |-> status, ok |-> ok, error |-> error, keys |-> keys,
     expected |-> -1, got |-> -1]

NoResponse == Response(0, FALSE, "", {})

\* How an awaited fetch and the decoding of its body can end:
\*   rejects  fetch(...) throws
\*   notJson  res.json() throws
\*   null     the body is the JSON value null
\*   object   the body is a JSON object
\* ok is res.ok.
ProductOutcomes ==
    {[transport |-> "rejects", ok |-> FALSE, errors |-> FALSE, product |-> FALSE]}
    \cup [transport : {"notJson", "null"}, ok : BOOLEAN,
          errors : {FALSE}, product : {FALSE}]
    \cup [transport : {"object"}, ok : BOOLEAN,
          errors : BOOLEAN, product : BOOLEAN]

\* What choices[0].message.content can be:
\*   missing       no choices / message / content (undefined)
\*   empty         ""
\*   garbage       text that is not JSON
\*   null          the JSON text "null"
\*   scalar        JSON text of a number
\*   noSegmentsAr  a JSON object without segments_ar
\*   segmentsArNull, segmentsArString   segments_ar: null, segments_ar: "..."
\*   array         segments_ar is an array of strings
Contents ==
    {"missing", "empty", "garbage", "null", "scalar", "noSegmentsAr",
     "segmentsArNull", "segmentsArString", "array"}

OracleOutcomes ==
    {[transport |-> "rejects", ok |-> FALSE, content |-> "missing"]}
    \cup [transport : {"notJson", "null"}, ok : BOOLEAN, content : {"missing"}]
    \cup [transport : {"object"}, ok : BOOLEAN, content : Contents]

NoOutcome == [transport |-> "none", ok |-> FALSE, content |-> "missing"]

RegisterOutcomes ==
    {[transport |-> "rejects", ok |-> FALSE, errors |-> FALSE, userErrors |-> FALSE]}
    \cup [transport : {"notJson", "null"}, ok : BOOLEAN,
          errors : {FALSE}, userErrors : {FALSE}]
    \cup [transport : {"object"}, ok : BOOLEAN,
          errors : BOOLEAN, userErrors : BOOLEAN]

\* The locals of one invocation before it starts.  fetched, oracle and
\* registered record what each upstream call answered, method, body and env
\* what the request and the process held; failedAt records the stage whose
\* failure produced the response.
IdleHandler ==
    [pc |-> "idle", method |-> "", body |-> "",
     env |-> [storeDomain |-> FALSE, adminToken |-> FALSE,
              openaiKey |-> FALSE],
     calls |-> <<>>,
     fetched |-> [transport |-> "none", ok |-> FALSE, errors |-> FALSE,
                  product |-> FALSE],
     descriptionHtml_en |-> <<>>, segments |-> <<>>, segmentTexts |-> <<>>,
     oracle |-> NoOutcome, segments_ar |-> <<>>,
     rebuilt |-> FALSE, descriptionHtml_ar |-> <<>>,
     registered |-> [transport |-> "none", ok |-> FALSE, errors |-> FALSE,
                     userErrors |-> FALSE],
     resp |-> NoResponse, failedAt |-> "none"]

\* return res.status(...).json(...)
Finish(st, resp, stage) ==
    [st EXCEPT !.pc = "done", !.resp = resp, !.failedAt = stage]

\* The catch block of the handler.
Catch(st, stage) ==
    Finish(st, Response(StatusServerError, FALSE, ErrUnexpected,
                        {"ok", "error"}), stage)

\* const { handle } = req.body || {}; if (!handle)
MissingHandleUndefinedOnly(body) == body \in {"undefined", "noHandle"}

MissingHandle(body) == body # "handle"

\* !productRes.ok || productJson.errors, !registerRes.ok || registerJson.errors
UpstreamFailedStatusOnly(o) == ~o.ok

UpstreamFailed(o) == ~o.ok \/ o.errors

\* const product = productJson.data?.productByHandle; if (!product)
ProductMissingUnchecked(o) == FALSE

\* product kept in a binding that all invocations share
ProductMissingShared(o) ==
    \/ ~o.product
    \/ \E q \in active :
          /\ h[q].fetched.transport = "object"
          /\ h[q].fetched.ok
          /\ ~h[q].fetched.errors
          /\ ~h[q].fetched.product

ProductMissing(o) == ~o.product

\* JSON.parse(content) throws, with content = ...?.content || ""
ParseThrowsOnGarbageOnly(content) == content = "garbage"

ParseThrows(content) == content \in {"missing", "empty", "garbage"}

\* !Array.isArray(segments_ar), after the destructuring of translationData || {}
NotArray(content) == content # "array"

\* segments_ar.length !== segments.length
LengthMismatchWhenShorter(segments_ar, segs) == Len(segments_ar) < Len(segs)

LengthMismatch(segments_ar, segs) == Len(segments_ar) # Len(segs)

\* The handler from its entry to the first await.
HandleRequest(st, method, body, env) ==
    LET st1 == [st EXCEPT !.method = method, !.body = body, !.env = env]
    IN  IF method # "POST"
        THEN Finish(st1, Response(StatusMethodNotAllowed, FALSE, ErrMethod,
                                  {"ok", "error"}), "input")
        ELSE IF MissingHandle(body)
        THEN Finish(st1, Response(StatusBadRequest, FALSE, ErrMissingHandle,
                                  {"ok", "error"}), "input")
        ELSE IF ~env.storeDomain \/ ~env.adminToken
        THEN Finish(st1, Response(StatusServerError, FALSE, ErrShopifyEnv,
                                  {"ok", "error"}), "config")
        ELSE IF ~env.openaiKey
        THEN Finish(st1, Response(StatusServerError, FALSE, ErrOpenAIEnv,
                                  {"ok", "error"}), "config")
        ELSE [st1 EXCEPT !.calls = Append(@, CallProduct),
                         !.pc = "awaitProduct"]

\* From the answer of the product fetch to the second await; markup is
\* product.descriptionHtml || "".
AfterProductFetch(st, o, markup) ==
    LET st1 == [st EXCEPT !.fetched = o]
    IN  IF o.transport \in {"rejects", "notJson", "null"}
        THEN Catch(st1, "fetch")
        ELSE IF UpstreamFailed(o)
        THEN Finish(st1, Response(StatusServerError, FALSE, ErrProductApi,
                                  {"ok", "error", "details"}), "fetch")
        ELSE IF ProductMissing(o)
        THEN Finish(st1, Response(StatusNotFound, FALSE, ErrNoProduct,
                                  {"ok", "error"}), "fetch")
        ELSE LET segs == extractTextSegments(markup)
             IN  [st1 EXCEPT !.descriptionHtml_en = markup,
                             !.segments = segs,
                             !.segmentTexts = SegmentTexts(segs),
                             !.calls = Append(@, CallOpenAI),
                             !.pc = "awaitOracle"]

\* From the answer of the oracle to the third await; arr is segments_ar when
\* the content carries an array (and empty otherwise).
AfterOracle(st, o, arr) ==
    LET st1 == [st EXCEPT !.oracle = o, !.segments_ar = arr]
    IN  IF o.transport \in {"rejects", "notJson"}
        THEN Catch(st1, "oracle")
        ELSE IF ~o.ok
        THEN Finish(st1, Response(StatusServerError, FALSE, ErrOpenAIApi,
                                  {"ok", "error", "details"}), "oracle")
        ELSE IF o.transport = "null"
        THEN Catch(st1, "oracle")
        ELSE IF ParseThrows(o.content)
        THEN Finish(st1, Response(StatusServerError, FALSE, ErrParse,
                                  {"ok", "error", "details"}), "oracle")
        ELSE IF NotArray(o.content)
        THEN Finish(st1, Response(StatusServerError, FALSE, ErrNoSegmentsAr,
                                  {"ok", "error", "details"}), "oracle")
        ELSE IF LengthMismatch(arr, st.segments)
                 THEN Finish(st1,
                             [Response(StatusServerError, FALSE, ErrMismatch,
                                       {"ok", "error", "details"})
                                EXCEPT !.expected = Len(st.segments),
                                       !.got = Len(arr)],
                             "validate")
                 ELSE [st1 EXCEPT
                         !.rebuilt = TRUE,
                         !.descriptionHtml_ar =
                             rebuildHtmlWithTranslations(
                                 st.descriptionHtml_en, st.segments, arr),
                         !.calls = Append(@, CallRegister),
                         !.pc = "awaitRegister"]

\* From the answer of the registration call to the response.
AfterRegister(st, o) ==
    LET st1 == [st EXCEPT !.registered = o]
    IN  IF o.transport \in {"rejects", "notJson", "null"}
        THEN Catch(st1, "register")
        ELSE IF UpstreamFailed(o)
        THEN Finish(st1, Response(StatusServerError, FALSE, ErrRegisterApi,
                                  {"ok", "error", "details"}), "register")
        ELSE IF o.userErrors
        THEN Finish(st1, Response(StatusBadRequest, FALSE, ErrUserErrors,
                                  {"ok", "error", "userErrors"}), "register")
        ELSE Finish(st1, Response(StatusOk, TRUE, "",
                                  {"ok", "productId", "handle",
                                   "translations.title_ar",
                                   "translations.seoTitle_ar",
                                   "translations.seoDescription_ar",
                                   "shopifyTranslationsRegister"}), "none")

\* ------------------------------------------------------------------------
\* The two functions on their own, on every markup string
\* ------------------------------------------------------------------------

\* "<p>Hello <strong>World</strong></p>"
ScenarioMarkup ==
    <<"<", "p", ">", "H", "e", "l", "l", "o", " ",
      "<", "s", "t", "r", "o", "n", "g", ">", "W", "o", "r", "l", "d",
      "<", "/", "s", "t", "r", "o", "n", "g", ">", "<", "/", "p", ">">>

InitPure ==
    /\ html \in Strings \cup {ScenarioMarkup}
    /\ segments = <<>>
    /\ translations = <<>>
    /\ result = <<>>
    /\ reextracted = <<>>
    /\ phase = "start"
    /\ active = {}
    /\ h = [r \in active |-> IdleHandler]

Extract ==
    /\ phase = "start"
    /\ segments' = extractTextSegments(html)
    /\ phase' = "extracted"
    /\ UNCHANGED <<html, translations, result, reextracted, active, h>>

\* Splice with the segments' own texts fed back.
RebuildOwnTexts ==
    /\ phase = "extracted"
    /\ translations' = SegmentTexts(segments)
    /\ result' = rebuildHtmlWithTranslations(html, segments, translations')
    /\ phase' = "rebuilt"
    /\ UNCHANGED <<html, segments, reextracted, active, h>>

\* Splice with any translated sequence of the same length.
RebuildTranslated ==
    /\ phase = "extracted"
    /\ \E tr \in TextSeqs(TransTexts, Len(segments)) :
          /\ translations' = tr
          /\ result' = rebuildHtmlWithTranslations(html, segments, tr)
    /\ phase' = "rebuilt"
    /\ UNCHANGED <<html, segments, reextracted, active, h>>

\* The scan run again on the spliced markup.
ReExtract ==
    /\ phase = "rebuilt"
    /\ reextracted' = extractTextSegments(result)
    /\ phase' = "reextracted"
    /\ UNCHANGED <<html, segments, translations, result, active, h>>

NextPure == Extract \/ RebuildOwnTexts \/ RebuildTranslated \/ ReExtract

SpecPure == InitPure /\ [][NextPure]_vars

\* ------------------------------------------------------------------------
\* The handler as a state machine: one step per stretch between awaits
\* ------------------------------------------------------------------------

\* Description markups of the products in the runs of two invocations.
PairHtmls == {<<"<", ">">>, <<"a", "<", ">", "a">>}

\* Description markups the platform may hold.
HtmlInputs == IF Cardinality(active) > 1 THEN PairHtmls ELSE Strings

\* Arrays the oracle may return for n segments.
OracleArrays(n) == UNION {TextSeqs(OracleTexts, k) : k \in 0..(n + MaxExtra)}

InitHandlers(a) ==
    /\ html = <<>>
    /\ segments = <<>>
    /\ translations = <<>>
    /\ result = <<>>
    /\ reextracted = <<>>
    /\ phase = "unused"
    /\ active = a
    /\ h = [r \in active |-> IdleHandler]

\* One invocation.
Init == InitHandlers({1})

\* Two invocations in flight together.
InitPair == InitHandlers({1, 2})

Start(r) ==
    /\ h[r].pc = "idle"
    /\ \E method \in Methods, body \in Bodies, env \in Envs :
          h' = [h EXCEPT ![r] = HandleRequest(@, method, body, env)]
    /\ UNCHANGED <<pureVars, active>>

ProductResponse(r) ==
    /\ h[r].pc = "awaitProduct"
    /\ \E o \in ProductOutcomes :
          \E markup \in IF o.transport = "object" /\ o.product
                        THEN HtmlInputs ELSE {<<>>} :
             h' = [h EXCEPT ![r] = AfterProductFetch(@, o, markup)]
    /\ UNCHANGED <<pureVars, active>>

OracleResponse(r) ==
    /\ h[r].pc = "awaitOracle"
    /\ \E o \in OracleOutcomes :
          \E arr \in IF o.transport = "object" /\ o.content = "array"
                     THEN OracleArrays(Len(h[r].segments)) ELSE {<<>>} :
             h' = [h EXCEPT ![r] = AfterOracle(@, o, arr)]
    /\ UNCHANGED <<pureVars, active>>

RegisterResponse(r) ==
    /\ h[r].pc = "awaitRegister"
    /\ \E o \in RegisterOutcomes :
          h' = [h EXCEPT ![r] = AfterRegister(@, o)]
    /\ UNCHANGED <<pureVars, active>>

Next ==
    \/ \E r \in active : Start(r)
    \/ \E r \in active : ProductResponse(r)
    \/ \E r \in active : OracleResponse(r)
    \/ \E r \in active : RegisterResponse(r)

Spec == Init /\ [][Next]_vars

SpecPair == InitPair /\ [][Next]_vars

\* ------------------------------------------------------------------------
\* Properties
\* ------------------------------------------------------------------------

Done(r) == h[r].pc = "done"

Issued(r, call) == \E k \in 1..Len(h[r].calls) : h[r].calls[k] = call

IsPrefix(s, t) == Len(s) <= Len(t) /\ s = SubSeq(t, 1, Len(s))

AllCalls == <<CallProduct, CallOpenAI, CallRegister>>

\* The calls an invocation has made when it fails at a stage.
CallsThrough(stage) ==
    CASE stage \in {"input", "config"} -> <<>>
      [] stage = "fetch" -> <<CallProduct>>
      [] stage \in {"oracle", "validate"} -> <<CallProduct, CallOpenAI>>
      [] OTHER -> AllCalls

\* The product lookup passed the status/errors check of the handler.
LookupSucceeded(r) ==
    /\ h[r].fetched.transport = "object"
    /\ h[r].fetched.ok
    /\ ~h[r].fetched.errors

\* The oracle answered with a success status and a JSON object as body.
OracleAnswered(r) == h[r].oracle.transport = "object" /\ h[r].oracle.ok

\* The oracle answered with a segments_ar array.
OracleReturnedArray(r) == OracleAnswered(r) /\ h[r].oracle.content = "array"

\* C1: feeding the segments' own texts back into the splice reproduces the
\* markup exactly, for every markup string.
C1_RoundTrip ==
    (phase = "rebuilt" /\ translations = SegmentTexts(segments))
        => result = html

\* Whether the scan is inside a tag when it reaches index i of s.
InsideTagAt(s, i) == ExtractLoop(SubSeq(s, 1, i), 0, ExtractInit).insideTag

\* Index i of s is a tag/structural position.
Structural(s, i) == s[i + 1] \in {"<", ">"} \/ InsideTagAt(s, i)

\* The segments whose range [start, end) holds index i.
Covering(segs, i) ==
    {k \in 1..Len(segs) : segs[k].start <= i /\ i < segs[k].end}

\* C2: the segment ranges and the tag/structural positions partition
\* [0, length(markup)): every index is of exactly one of the two kinds and
\* in at most one segment.
C2_Coverage ==
    phase # "start" =>
        \A i \in 0..(Len(html) - 1) :
            \/ Structural(html, i) /\ Covering(segments, i) = {}
            \/ ~Structural(html, i) /\ Cardinality(Covering(segments, i)) = 1

\* C3: an oracle answer whose segments_ar array differs in length from the
\* extracted segments ends the invocation with the mismatch failure carrying
\* both counts; nothing is spliced and no registration call is issued.
C3_CardinalityEnforced ==
    \A r \in active :
        (OracleReturnedArray(r)
         /\ Len(h[r].segments_ar) # Len(h[r].segments))
        => /\ Done(r)
           /\ h[r].resp.status = StatusServerError
           /\ ~h[r].resp.ok
           /\ h[r].resp.error = ErrMismatch
           /\ h[r].resp.expected = Len(h[r].segments)
           /\ h[r].resp.got = Len(h[r].segments_ar)
           /\ ~h[r].rebuilt
           /\ h[r].descriptionHtml_ar = <<>>
           /\ ~Issued(r, CallRegister)

\* The scenario of the spec: two segments, one translated segment.
C3_Witness ==
    \E r \in active :
        /\ Done(r)
        /\ OracleReturnedArray(r)
        /\ Len(h[r].segments) = 2
        /\ Len(h[r].segments_ar) = 1
        /\ h[r].resp.expected = 2
        /\ h[r].resp.got = 1

\* C4: the upstream calls are product fetch, oracle, registration, in that
\* order and each at most once; the oracle is called only for a product that
\* was found, the registration only after the array and length checks passed
\* and the description was spliced; a failed invocation has made no call of
\* a stage after the one that failed.
C4_PipelineOrder ==
    \A r \in active :
        /\ IsPrefix(h[r].calls, AllCalls)
        /\ Issued(r, CallOpenAI)
              => LookupSucceeded(r) /\ h[r].fetched.product
        /\ Issued(r, CallRegister)
              => /\ OracleReturnedArray(r)
                 /\ Len(h[r].segments_ar) = Len(h[r].segments)
                 /\ h[r].rebuilt
                 /\ h[r].descriptionHtml_ar =
                        rebuildHtmlWithTranslations(h[r].descriptionHtml_en,
                                                    h[r].segments,
                                                    h[r].segments_ar)
        /\ (Done(r) /\ ~h[r].resp.ok)
              => /\ h[r].failedAt # "none"
                 /\ h[r].calls = CallsThrough(h[r].failedAt)
                 /\ h[r].resp.status >= StatusBadRequest
        /\ (Done(r) /\ h[r].resp.ok) => h[r].calls = AllCalls

C4_Witness ==
    \E r \in active :
        /\ Done(r)
        /\ h[r].resp.ok
        /\ h[r].calls = AllCalls
        /\ Len(h[r].segments) = 2

C6_InvalidInput ==
    \A r \in active :
        (h[r].pc # "idle" /\ h[r].body # "handle")
        => /\ Done(r)
           /\ h[r].calls = <<>>
           /\ ~h[r].resp.ok
           /\ h[r].resp.status \in {StatusBadRequest, StatusMethodNotAllowed}
           /\ h[r].method = "POST"
                 => /\ h[r].resp.status = StatusBadRequest
                    /\ h[r].resp.error = ErrMissingHandle

C6_Witness ==
    \E r \in active :
        /\ Done(r)
        /\ h[r].method = "POST"
        /\ h[r].body = "emptyHandle"
        /\ h[r].resp.status = StatusBadRequest
        /\ h[r].calls = <<>>

\* markup[prevEnd : start) of segment k, the bytes between two segments.
Gap(s, segs, k) ==
    Slice(s, IF k = 1 THEN 0 ELSE segs[k - 1].end, segs[k].start)

\* markup[0:s0.start) + t0 + ... + t(k-1), the output up to segment k.
RECURSIVE SplicedThrough(_, _, _, _)
SplicedThrough(s, segs, trans, k) ==
    IF k = 0 THEN <<>>
    ELSE SplicedThrough(s, segs, trans, k - 1) \o Gap(s, segs, k) \o trans[k]

\* The output read off position by position: at the start of segment k
\* stands trans[k], the rest of a segment's range is dropped, every other
\* character is copied.
RECURSIVE SplicedFrom(_, _, _, _)
SplicedFrom(s, segs, trans, i) ==
    IF i >= Len(s) THEN <<>>
    ELSE LET starting == {k \in 1..Len(segs) : segs[k].start = i}
             piece == IF starting # {}
                      THEN trans[CHOOSE k \in starting : TRUE]
                      ELSE IF Covering(segs, i) # {} THEN <<>>
                      ELSE <<s[i + 1]>>
         IN  piece \o SplicedFrom(s, segs, trans, i + 1)

\* C7: the splice output is markup[0:s0.start) + t0 + markup[s0.end:s1.start)
\* + t1 + ... + markup[s(n-1).end:]: each translation stands where its
\* segment was, every character outside the segment ranges is copied in
\* order, every segment range is replaced exactly once.
C7_SpliceOrder ==
    phase = "rebuilt" =>
        /\ Len(translations) = Len(segments)
        /\ result = SplicedThrough(html, segments, translations,
                                   Len(segments))
                    \o SliceFrom(html, IF segments = <<>> THEN 0
                                       ELSE segments[Len(segments)].end)
        /\ result = SplicedFrom(html, segments, translations, 0)

\* Two segments with translations equal in content.
C7_Witness ==
    /\ phase = "rebuilt"
    /\ Len(segments) = 2
    /\ translations[1] = translations[2]
    /\ translations[1] # <<>>
    /\ translations # SegmentTexts(segments)

\* C8: a non-success status of the oracle, whatever its body, ends the
\* invocation with "OpenAI translation API error" and no registration call.
C8_OracleUnavailable ==
    \A r \in active :
        (h[r].oracle.transport \in {"notJson", "null", "object"}
         /\ ~h[r].oracle.ok)
        => /\ Done(r)
           /\ h[r].resp.status = StatusServerError
           /\ h[r].resp.error = ErrOpenAIApi
           /\ ~Issued(r, CallRegister)

Outcome(r) ==
    IF ~Issued(r, CallRegister) THEN "notIssued"
    ELSE IF /\ h[r].registered.transport = "object"
            /\ h[r].registered.ok
            /\ ~h[r].registered.errors
            /\ ~h[r].registered.userErrors
         THEN "accepted"
         ELSE "notAccepted"

\* C10: two invocations that end in different outcomes (no registration
\* call, registration call not accepted, translation accepted) never return
\* the same status and error; ok:true is returned only for an accepted
\* registration.
C10_Distinguishable ==
    /\ \A r1, r2 \in active :
          (Done(r1) /\ Done(r2) /\ Outcome(r1) # Outcome(r2))
          => <<h[r1].resp.status, h[r1].resp.error>>
                # <<h[r2].resp.status, h[r2].resp.error>>
    /\ \A r \in active :
          (Done(r) /\ h[r].resp.ok) => Outcome(r) = "accepted"

\* C11: every segment has 0 <= start < end <= length(markup) and non-empty
\* text; the segments do not overlap and are strictly increasing in start
\* (each starts at or after the end of the one before).
C11_SegmentInvariants ==
    phase # "start" =>
        /\ \A k \in 1..Len(segments) :
              /\ 0 <= segments[k].start
              /\ segments[k].start < segments[k].end
              /\ segments[k].end <= Len(html)
              /\ segments[k].text # <<>>
        /\ \A k \in 1..(Len(segments) - 1) :
              /\ segments[k].end <= segments[k + 1].start
              /\ segments[k].start < segments[k + 1].start

C11_Witness ==
    /\ phase = "extracted"
    /\ Len(segments) = 2
    /\ segments[1].end < segments[2].start

\* The markup holds no '<'.
NoLt(s) == \A i \in 1..Len(s) : s[i] # "<"

\* C12 as stated: a markup without '<' yields exactly one segment, with
\* start = 0 and end = length(markup).
C12_NoTagOneSegment ==
    (phase # "start" /\ NoLt(html))
        => /\ Len(segments) = 1
           /\ segments[1].start = 0
           /\ segments[1].end = Len(html)

\* C12 as amended: a non-empty markup without '<' that does not begin with
\* '>' yields exactly one segment, with start = 0 and end = length(markup).
C12_NoTagNonEmpty ==
    (phase # "start" /\ NoLt(html) /\ html # <<>> /\ html[1] # ">")
        => /\ Len(segments) = 1
           /\ segments[1].start = 0
           /\ segments[1].end = Len(html)

C12_Witness ==
    /\ phase = "extracted"
    /\ NoLt(html)
    /\ Len(html) >= 2
    /\ html[1] # ">"
    /\ segments = <<[start |-> 0, end |-> Len(html), text |-> html]>>

\* The markup is a concatenation of tags '<...>' and nothing else.
RECURSIVE TagOnly(_)
TagOnly(s) ==
    \/ s = <<>>
    \/ /\ s[1] = "<"
       /\ \E j \in 2..Len(s) :
             /\ s[j] = ">"
             /\ \A i \in 2..(j - 1) : s[i] \notin {"<", ">"}
             /\ TagOnly(SubSeq(s, j + 1, Len(s)))

\* C13: a tag-only markup yields no segment, and the splice of it with no
\* segment and no translation returns the markup unchanged.
C13_TagOnly ==
    TagOnly(html) =>
        /\ phase # "start" => segments = <<>>
        /\ phase \in {"rebuilt", "reextracted"}
              => translations = <<>> /\ result = html

C13_Witness ==
    /\ phase = "rebuilt"
    /\ TagOnly(html)
    /\ Len(html) >= 3
    /\ result = html

RECURSIVE SumLen(_)
SumLen(texts) ==
    IF texts = <<>> THEN 0 ELSE Len(Head(texts)) + SumLen(Tail(texts))

\* C14: the length of the splice output is length(markup) minus the lengths
\* of the segments' texts plus the lengths of the translated strings.
C14_SpliceLength ==
    phase \in {"rebuilt", "reextracted"} =>
        Len(result) =
            Len(html)
            - SumLen([k \in 1..Len(segments) |-> segments[k].text])
            + SumLen(translations)

\* C15: "<p>Hello <strong>World</strong></p>" yields "Hello " at [3,9) and
\* "World" at [17,22), and the splice of t0, t1 is
\* "<p>" + t0 + "<strong>" + t1 + "</strong></p>".
C15_Scenario ==
    (html = ScenarioMarkup /\ phase # "start") =>
        /\ segments =
             <<[start |-> 3, end |-> 9,
                text |-> <<"H", "e", "l", "l", "o", " ">>],
               [start |-> 17, end |-> 22,
                text |-> <<"W", "o", "r", "l", "d">>]>>
        /\ phase \in {"rebuilt", "reextracted"} =>
              result = <<"<", "p", ">">> \o translations[1]
                       \o <<"<", "s", "t", "r", "o", "n", "g", ">">>
                       \o translations[2]
                       \o <<"<", "/", "s", "t", "r", "o", "n", "g", ">",
                            "<", "/", "p", ">">>

C15_Witness ==
    /\ html = ScenarioMarkup
    /\ phase = "rebuilt"
    /\ translations = <<<<"x">>, <<"x", "y">>>>

\* C19: the text of every segment is markup[start:end), a run that holds
\* neither '<' nor '>' and lies outside any tag.
C19_TextIsRange ==
    phase # "start" =>
        \A k \in 1..Len(segments) :
            /\ segments[k].text =
                   Slice(html, segments[k].start, segments[k].end)
            /\ \A i \in segments[k].start..(segments[k].end - 1) :
                   ~Structural(html, i)

\* A translation that is not empty and holds neither '<' nor '>'.
CleanText(t) == t # <<>> /\ \A i \in 1..Len(t) : t[i] \notin {"<", ">"}

\* C20: when every translation is clean, the scan of the spliced markup
\* returns segments whose texts are the translations, in number and order.
C20_SkeletonStable ==
    (phase = "reextracted"
     /\ \A k \in 1..Len(translations) : CleanText(translations[k]))
        => /\ Len(reextracted) = Len(translations)
           /\ \A k \in 1..Len(translations) :
                 reextracted[k].text = translations[k]

C20_Witness ==
    /\ phase = "reextracted"
    /\ Len(translations) = 2
    /\ translations[1] = <<"x", "y">>
    /\ translations[2] = <<"x">>
    /\ translations # [k \in 1..Len(segments) |-> segments[k].text]
    /\ reextracted[1].text = <<"x", "y">>

\* Fields of a response that hold content fetched from the platform.
OriginalContentKeys ==
    {"title_en", "descriptionHtml_en", "seoTitle_en", "seoDescription_en",
     "original"}

\* Fields of a response that hold the translated description markup.
TranslatedMarkupKeys ==
    {"descriptionHtml_ar", "translations.descriptionHtml_ar"}

\* C16: every success response holds the original content fetched from the
\* platform, the translated content with the translated description markup,
\* and the registration outcome.
C16_SuccessPayload ==
    \A r \in active :
        (Done(r) /\ h[r].resp.ok)
        => /\ h[r].resp.keys \cap OriginalContentKeys # {}
           /\ "translations.title_ar" \in h[r].resp.keys
           /\ h[r].resp.keys \cap TranslatedMarkupKeys # {}
           /\ "shopifyTranslationsRegister" \in h[r].resp.keys

\* Indices p < q of s (0-based) enclose a blank run between two tags: p is
\* the '>' that closes a tag, q the next '<', blanks and nothing else between.
BlankRunBetweenTags(s, p, q) ==
    /\ p + 1 < q
    /\ s[p + 1] = ">"
    /\ InsideTagAt(s, p)
    /\ s[q + 1] = "<"
    /\ \A i \in (p + 1)..(q - 1) : s[i + 1] = " "

\* C17: a blank run between two tags is a segment like any other, and the
\* texts sent to the oracle are the segments' texts, same length and order.
C17_UnfilteredForwarding ==
    \A r \in active :
        Issued(r, CallOpenAI) =>
           /\ h[r].segments = extractTextSegments(h[r].descriptionHtml_en)
           /\ Len(h[r].segmentTexts) = Len(h[r].segments)
           /\ \A k \in 1..Len(h[r].segments) :
                 h[r].segmentTexts[k] = h[r].segments[k].text
           /\ \A p, q \in 0..(Len(h[r].descriptionHtml_en) - 1) :
                 BlankRunBetweenTags(h[r].descriptionHtml_en, p, q)
                 => \E k \in 1..Len(h[r].segments) :
                       /\ h[r].segments[k].start = p + 1
                       /\ h[r].segments[k].end = q
                       /\ h[r].segmentTexts[k] =
                             [i \in 1..(q - p - 1) |-> " "]

C17_Witness ==
    \E r \in active :
        /\ Issued(r, CallOpenAI)
        /\ h[r].descriptionHtml_en = <<"<", ">", " ", "<">>
        /\ h[r].segmentTexts = << <<" ">> >>

\* The status and error of the response a lone invocation gives to the
\* request, environment and upstream answers recorded in st.
SoloResponse(st) ==
    IF st.method # "POST" THEN <<StatusMethodNotAllowed, ErrMethod>>
    ELSE IF st.body # "handle" THEN <<StatusBadRequest, ErrMissingHandle>>
    ELSE IF ~st.env.storeDomain \/ ~st.env.adminToken
    THEN <<StatusServerError, ErrShopifyEnv>>
    ELSE IF ~st.env.openaiKey THEN <<StatusServerError, ErrOpenAIEnv>>
    ELSE IF st.fetched.transport # "object"
    THEN <<StatusServerError, ErrUnexpected>>
    ELSE IF ~st.fetched.ok \/ st.fetched.errors
    THEN <<StatusServerError, ErrProductApi>>
    ELSE IF ~st.fetched.product THEN <<StatusNotFound, ErrNoProduct>>
    ELSE IF st.oracle.transport \in {"rejects", "notJson"}
    THEN <<StatusServerError, ErrUnexpected>>
    ELSE IF ~st.oracle.ok THEN <<StatusServerError, ErrOpenAIApi>>
    ELSE IF st.oracle.transport = "null"
    THEN <<StatusServerError, ErrUnexpected>>
    ELSE IF st.oracle.content \in {"missing", "empty", "garbage"}
    THEN <<StatusServerError, ErrParse>>
    ELSE IF st.oracle.content # "array"
    THEN <<StatusServerError, ErrNoSegmentsAr>>
    ELSE IF Len(st.segments_ar)
               # Len(extractTextSegments(st.descriptionHtml_en))
    THEN <<StatusServerError, ErrMismatch>>
    ELSE IF st.registered.transport # "object"
    THEN <<StatusServerError, ErrUnexpected>>
    ELSE IF ~st.registered.ok \/ st.registered.errors
    THEN <<StatusServerError, ErrRegisterApi>>
    ELSE IF st.registered.userErrors
    THEN <<StatusBadRequest, ErrUserErrors>>
    ELSE <<StatusOk, "">>

\* The call was made by the invocation whose locals are st.
IssuedIn(st, call) == \E k \in 1..Len(st.calls) : st.calls[k] = call

\* What the invocation with locals st sent and answered follows from its own
\* request and its own upstream answers.
AsIfAlone(st) ==
    /\ IssuedIn(st, CallOpenAI)
          => st.segmentTexts =
                 [k \in 1..Len(extractTextSegments(st.descriptionHtml_en))
                    |-> extractTextSegments(st.descriptionHtml_en)[k].text]
    /\ IssuedIn(st, CallRegister)
          => st.descriptionHtml_ar =
                 rebuildHtmlWithTranslations(
                     st.descriptionHtml_en,
                     extractTextSegments(st.descriptionHtml_en),
                     st.segments_ar)
    /\ st.pc = "done"
          => <<st.resp.status, st.resp.error>> = SoloResponse(st)

\* C18: with two invocations interleaved at their awaits, a step of one
\* leaves the locals of the other as they are, and the oracle payload, the
\* registration payload and the response of each are those of the
\* invocation run alone.
C18_RequestIndependence ==
    [][\A r \in active :
          /\ (h'[r] # h[r]) => \A q \in active \ {r} : h'[q] = h[q]
          /\ AsIfAlone(h'[r])]_vars

\* Both invocations in flight, each past another await, on different
\* markups.
C18_Witness ==
    /\ active = {1, 2}
    /\ h[1].pc = "awaitRegister"
    /\ h[2].pc = "awaitOracle"
    /\ h[1].descriptionHtml_en # h[2].descriptionHtml_en
    /\ h[1].descriptionHtml_ar = <<"x", "<", ">", "y", "y">>

====
